---- MODULE Spec2Model ----
(***************************************************************************)
(* A model of the C++ channel wrappers of yggdrasil/interface/             *)
(* YggInterface.hpp: YggInput, YggOutput, YggRpc, YggRpcServer and         *)
(* YggRpcClient.  Every wrapper method forwards to one function of the C   *)
(* interface (YggInterface.h).  The wrapper methods are modelled from the  *)
(* header; the C functions they call (ygg_free, ygg_send, ygg_recv, the    *)
(* chunked transfer, the codec and the RPC call) are modelled from the     *)
(* design document.                                                        *)
(***************************************************************************)
EXTENDS Integers, Sequences, FiniteSets, TLC

VARIABLES
  h,          \* h[o]: the C handle struct held in wrapper object o (_pi)
  life,       \* life[o]: "unborn" (never constructed), "live" or "dead"
  teardowns,  \* teardowns[o]: number of teardowns (ygg_free calls) made on o
  released,   \* released[r]: how many times transport resource r was released
  badAccess,  \* a transport resource was read or written after its release
  chan,       \* chan[c]: the transport units queued in channel c
  sent,       \* messages accepted from the Output object, in send-call order
  rcvd,       \* messages handed to the caller of the Input object, in order
  call,       \* the RPC client's call in progress and its attempt counters
  ncalls,     \* number of RPC client calls started
  pend,       \* pend[o]: the chunks of o's unbounded send still to be put
  loop,       \* the RPC round trips: requests put, responses returned, and
              \* the request the server's loop holds (<<>>: none)
  last        \* the most recent wrapper operation and what it returned

vars == <<h, life, teardowns, released, badAccess, chan, sent, rcvd, call,
          ncalls, pend, loop, last>>

(***************************************************************************)
(* Bounds and constants                                                    *)
(***************************************************************************)
\* The inline limit of one transport unit (scaled down).
YGG_MSG_MAX == 8

\* At most this many messages are sent by the Output object in one run.
MaxMsgs == 2
\* At most this many explicit _destroy_pi calls are made on one object.
MaxTeardowns == 2
\* At most this many RPC client calls are started in one run.
MaxCalls == 2
\* At most this many transport units wait in an RPC channel.
MaxQueue == 1

Objs == {"in", "out", "out2", "cli", "srv"}
Resources ==
  {"rIn", "rOut", "rOut2", "cliReq", "cliResp", "srvReq", "srvResp"}
Chans == {"ch", "req", "resp"}
None == "none"

\* The channel each transport resource is bound to.
ResChan(r) ==
  CASE r \in {"rIn", "rOut", "rOut2"} -> "ch"
    [] r \in {"cliReq", "srvReq"} -> "req"
    [] OTHER -> "resp"

(***************************************************************************)
(* Status codes: a signed result, >= 0 on success, negative on failure.    *)
(* The error kind is kept beside the sign for the properties.              *)
(***************************************************************************)
Ok(n) == [ret |-> n, err |-> "OK"]
Fail(kind) == [ret |-> -1, err |-> kind]

Max(a, b) == IF a >= b THEN a ELSE b
Min(a, b) == IF a <= b THEN a ELSE b

IsPrefix(s, t) == Len(s) <= Len(t) /\ SubSeq(t, 1, Len(s)) = s

(***************************************************************************)
(* Message codec: a descriptor is a sequence of field widths; a value is a *)
(* byte sequence; a field is encoded as its length followed by its bytes.  *)
(***************************************************************************)
RECURSIVE packFields(_)
packFields(vals) ==
  IF vals = <<>> THEN <<>>
  ELSE <<Len(Head(vals))>> \o Head(vals) \o packFields(Tail(vals))

pack(d, vals) ==
  IF Len(vals) # Len(d) \/ \E i \in 1..Len(d) : Len(vals[i]) > d[i]
  THEN [st |-> Fail("EncodingError"), bytes |-> <<>>]
  ELSE [st |-> Ok(0), bytes |-> packFields(vals)]

\* Decode field k+1 onwards; dests[i] = [cap, val] is the i-th destination.
RECURSIVE unpackFrom(_, _, _, _, _)
unpackFrom(d, bytes, dests, realloc, k) ==
  IF k = Len(d) THEN [st |-> Ok(k), dests |-> dests, filled |-> k]
  ELSE IF bytes = <<>> \/ Len(bytes) < 1 + bytes[1]
  THEN [st |-> Fail("TruncatedMessage"), dests |-> dests, filled |-> k]
  ELSE LET n == bytes[1]
           v == SubSeq(bytes, 2, 1 + n)
           rest == SubSeq(bytes, n + 2, Len(bytes))
           dst == dests[k + 1]
       IN  IF n > dst.cap /\ ~realloc
           THEN [st |-> Fail("BufferTooSmall"), dests |-> dests, filled |-> k]
           ELSE unpackFrom(d, rest,
                           [dests EXCEPT ![k + 1] =
                              [cap |-> Max(n, dst.cap), val |-> v]],
                           realloc, k + 1)

unpack(d, bytes, dests, realloc) == unpackFrom(d, bytes, dests, realloc, 0)

(***************************************************************************)
(* The world the C functions act on, and the result of one C call.         *)
(***************************************************************************)
\* api names the wrapper routine the application is calling (for the units it
\* puts on the wire).
World(api) ==
  [h |-> h, rel |-> released, chan |-> chan, bad |-> badAccess, api |-> api]

\* w: the world after the call; st: the status; tx, rx: transport send and
\* receive attempts made; pushed, popped: transport units added and taken;
\* data: the bytes handed back; cap: the receive buffer's capacity after the
\* call; dests: the destinations after a formatted receive.
Result(w, st, tx, rx, pushed, popped, data, cap, dests) ==
  [w |-> w, st |-> st, tx |-> tx, rx |-> rx, pushed |-> pushed,
   popped |-> popped, data |-> data, cap |-> cap, dests |-> dests]

Failed(w, kind) == Result(w, Fail(kind), 0, 0, 0, 0, <<>>, 0, <<>>)

\* The reserved end-of-stream payload.
YGG_MSG_EOF == <<255>>

(***************************************************************************)
(* The transport: a FIFO queue of units per channel.  A unit carries the   *)
(* bytes on the wire and the name of the send routine the application      *)
(* called (the peer picks the matching receive routine).                   *)
(***************************************************************************)
\* Append units through resource r; ok = FALSE: the transport refuses.
transport_send(w, r, units, ok) ==
  IF w.rel[r] > 0
  THEN Result([w EXCEPT !.bad = TRUE], Fail("TransportFailure"),
              1, 0, 0, 0, <<>>, 0, <<>>)
  ELSE IF ~ok
  THEN Result(w, Fail("TransportFailure"), 1, 0, 0, 0, <<>>, 0, <<>>)
  ELSE Result([w EXCEPT !.chan[ResChan(r)] =
                   @ \o [i \in 1..Len(units) |->
                           [api |-> w.api, bytes |-> units[i]]]],
              Ok(0), 1, 0, Len(units), 0, <<>>, 0, <<>>)

\* Whether a read through resource r touches a released resource.
transport_touch(w, r) ==
  IF w.rel[r] > 0 THEN [w EXCEPT !.bad = TRUE] ELSE w

transport_pop(w, r, n) ==
  [w EXCEPT !.chan[ResChan(r)] = SubSeq(@, n + 1, Len(@))]

(***************************************************************************)
(* ygg_free: release the handle's transport resources unless the handle    *)
(* records that they were released already.                                *)
(***************************************************************************)
HandleRes(hv) == {hv.out, hv.in} \ {None}

ygg_free(w, hv) ==
  IF hv.open
  THEN [w |-> [w EXCEPT !.rel = [r \in Resources |->
                   IF r \in HandleRes(hv) THEN w.rel[r] + 1 ELSE w.rel[r]]],
        hv |-> [hv EXCEPT !.open = FALSE]]
  ELSE [w |-> w, hv |-> hv]

(***************************************************************************)
(* Teardown in the wrappers: _destroy_pi passes the address of the         *)
(* object's own handle, so what ygg_free records is kept in the object.    *)
(***************************************************************************)
\* A teardown of a copy of the handle: the object never learns of the release.
destroy_copy(w, o) == ygg_free(w, w.h[o]).w

YggInput_destroy_copy(w, o) == destroy_copy(w, o)
YggInput_destroy_pi(w, o) ==
  LET r == ygg_free(w, w.h[o]) IN [r.w EXCEPT !.h[o] = r.hv]

YggOutput_destroy_copy(w, o) == destroy_copy(w, o)
YggOutput_destroy_pi(w, o) ==
  LET r == ygg_free(w, w.h[o]) IN [r.w EXCEPT !.h[o] = r.hv]

YggRpc_destroy_copy(w, o) == destroy_copy(w, o)
YggRpc_destroy_pi(w, o) ==
  LET r == ygg_free(w, w.h[o]) IN [r.w EXCEPT !.h[o] = r.hv]

destroy_pi(w, o) ==
  CASE o = "in" -> YggInput_destroy_pi(w, o)
    [] o \in {"out", "out2"} -> YggOutput_destroy_pi(w, o)
    [] OTHER -> YggRpc_destroy_pi(w, o)

\* ~YggInput and ~YggOutput: one teardown.
YggInput_dtor(w, o) == YggInput_destroy_pi(w, o)
YggOutput_dtor(w, o) == YggOutput_destroy_pi(w, o)
\* ~YggRpc: one teardown.
YggRpc_dtor(w, o) == YggRpc_destroy_pi(w, o)
\* ~YggRpcServer and ~YggRpcClient: a teardown in the derived destructor,
\* then the base destructor ~YggRpc.
YggRpcServer_dtor(w, o) == YggRpc_dtor(YggRpc_destroy_pi(w, o), o)
YggRpcClient_dtor(w, o) == YggRpc_dtor(YggRpc_destroy_pi(w, o), o)

dtor(w, o) ==
  CASE o = "in" -> YggInput_dtor(w, o)
    [] o \in {"out", "out2"} -> YggOutput_dtor(w, o)
    [] o = "srv" -> YggRpcServer_dtor(w, o)
    [] OTHER -> YggRpcClient_dtor(w, o)

\* The number of ygg_free calls one destructor makes.
DtorTeardowns(o) == IF o \in {"cli", "srv"} THEN 2 ELSE 1

(***************************************************************************)
(* Bounded transfer: one message is one transport unit of at most          *)
(* YGG_MSG_MAX bytes.                                                      *)
(***************************************************************************)
ygg_send(w, hv, data, ok) ==
  IF ~hv.open THEN Failed(w, "ChannelClosed")
  ELSE IF Len(data) > YGG_MSG_MAX THEN Failed(w, "MessageTooLarge")
  ELSE transport_send(w, hv.out, <<data>>, ok)

ygg_send_eof(w, hv, ok) ==
  IF ~hv.open THEN Failed(w, "ChannelClosed")
  ELSE transport_send(w, hv.out, <<YGG_MSG_EOF>>, ok)

\* cap: the capacity of the caller's buffer.
ygg_recv(w, hv, cap, ok) ==
  IF ~hv.open THEN Failed(w, "ChannelClosed")
  ELSE LET r == hv.in
           q == w.chan[ResChan(r)]
       IN  IF w.rel[r] > 0
           THEN Result(transport_touch(w, r), Fail("TransportFailure"),
                       0, 1, 0, 0, <<>>, cap, <<>>)
           ELSE IF ~ok \/ q = <<>>
           THEN Result(w, Fail("TransportFailure"), 0, 1, 0, 0, <<>>, cap, <<>>)
           ELSE IF Head(q).bytes = YGG_MSG_EOF
           THEN Result(transport_pop(w, r, 1), Fail("EOF"),
                       0, 1, 0, 1, <<>>, cap, <<>>)
           ELSE IF Len(Head(q).bytes) > cap
           THEN Result(w, Fail("BufferTooSmall"), 0, 1, 0, 0, <<>>, cap, <<>>)
           ELSE Result(transport_pop(w, r, 1), Ok(Len(Head(q).bytes)),
                       0, 1, 0, 1, Head(q).bytes, cap, <<>>)

(***************************************************************************)
(* Unbounded transfer: the sender splits the message into chunks of at     *)
(* most YGG_MSG_MAX bytes, each prefixed with a continuation flag and the  *)
(* chunk's length; the receiver joins the chunks in a buffer it grows.     *)
(***************************************************************************)
RECURSIVE Chunks(_)
Chunks(data) ==
  IF Len(data) <= YGG_MSG_MAX THEN <<data>>
  ELSE <<SubSeq(data, 1, YGG_MSG_MAX)>>
         \o Chunks(SubSeq(data, YGG_MSG_MAX + 1, Len(data)))

ChunkUnits(data) ==
  LET cs == Chunks(data)
  IN  [i \in 1..Len(cs) |->
         <<IF i < Len(cs) THEN 1 ELSE 0, Len(cs[i])>> \o cs[i]]

ygg_send_nolimit(w, hv, data, ok) ==
  IF ~hv.open THEN Failed(w, "ChannelClosed")
  ELSE transport_send(w, hv.out, ChunkUnits(data), ok)

WellFormedChunk(bytes) ==
  /\ Len(bytes) >= 2
  /\ bytes[1] \in {0, 1}
  /\ bytes[2] = Len(bytes) - 2

\* Join the chunks at the head of queue q: n units read so far, acc joined.
RECURSIVE Reassemble(_, _, _)
Reassemble(q, n, acc) ==
  IF q = <<>> THEN [state |-> "incomplete", n |-> n, data |-> acc]
  ELSE IF ~WellFormedChunk(Head(q).bytes)
  THEN [state |-> "malformed", n |-> n, data |-> acc]
  ELSE LET b == Head(q).bytes
           joined == acc \o SubSeq(b, 3, Len(b))
       IN  IF b[1] = 0
           THEN [state |-> "complete", n |-> n + 1, data |-> joined]
           ELSE Reassemble(Tail(q), n + 1, joined)

ygg_recv_nolimit(w, hv, cap, ok) ==
  IF ~hv.open THEN Failed(w, "ChannelClosed")
  ELSE LET r == hv.in
           q == w.chan[ResChan(r)]
           m == Reassemble(q, 0, <<>>)
       IN  IF w.rel[r] > 0
           THEN Result(transport_touch(w, r), Fail("TransportFailure"),
                       0, 1, 0, 0, <<>>, cap, <<>>)
           ELSE IF ~ok \/ q = <<>>
           THEN Result(w, Fail("TransportFailure"), 0, 1, 0, 0, <<>>, cap, <<>>)
           ELSE IF Head(q).bytes = YGG_MSG_EOF
           THEN Result(transport_pop(w, r, 1), Fail("EOF"),
                       0, 1, 0, 1, <<>>, cap, <<>>)
           ELSE IF m.state # "complete"
           THEN Result(w, Fail("TruncatedMessage"), 0, 1, 0, 0, <<>>, cap, <<>>)
           ELSE Result(transport_pop(w, r, m.n), Ok(Len(m.data)),
                       0, m.n, 0, m.n, m.data, Max(cap, Len(m.data)), <<>>)

(***************************************************************************)
(* Formatted transfer: the codec under the handle's descriptor, then the   *)
(* bounded byte transfer.                                                  *)
(***************************************************************************)
vyggSend(w, hv, nargs, args, ok) ==
  IF ~hv.open THEN Failed(w, "ChannelClosed")
  ELSE LET p == pack(hv.fmt_out, SubSeq(args, 1, Min(nargs, Len(args))))
       IN  IF p.st.ret < 0 THEN Failed(w, p.st.err)
           ELSE ygg_send(w, hv, p.bytes, ok)

\* realloc: the destinations may be grown.  A message that does not decode
\* stays in the channel.
vcommRecv(w, hv, realloc, nargs, dests, ok) ==
  IF ~hv.open THEN Failed(w, "ChannelClosed")
  ELSE LET r == hv.in
           q == w.chan[ResChan(r)]
           u == unpack(hv.fmt_in, Head(q).bytes,
                       SubSeq(dests, 1, Min(nargs, Len(dests))), realloc)
       IN  IF w.rel[r] > 0
           THEN Result(transport_touch(w, r), Fail("TransportFailure"),
                       0, 1, 0, 0, <<>>, 0, dests)
           ELSE IF ~ok \/ q = <<>>
           THEN Result(w, Fail("TransportFailure"), 0, 1, 0, 0, <<>>, 0, dests)
           ELSE IF Head(q).bytes = YGG_MSG_EOF
           THEN Result(transport_pop(w, r, 1), Fail("EOF"),
                       0, 1, 0, 1, <<>>, 0, dests)
           ELSE IF nargs # Len(hv.fmt_in) \/ Len(dests) < nargs
           THEN Result(w, Fail("ArgumentCountMismatch"),
                       0, 1, 0, 0, <<>>, 0, dests)
           ELSE IF u.st.ret < 0
           THEN Result(w, u.st, 0, 1, 0, 0, <<>>, 0, u.dests)
           ELSE Result(transport_pop(w, r, 1), u.st,
                       0, 1, 0, 1, Head(q).bytes, 0, u.dests)

vyggRecv(w, hv, realloc, nargs, dests, ok) ==
  vcommRecv(w, hv, realloc, nargs, dests, ok)

(***************************************************************************)
(* RPC on a paired handle: the client's out half carries requests and its  *)
(* in half responses; the server's halves are the opposite ends.           *)
(***************************************************************************)
vrpcSend(w, hv, nargs, args, ok) == vyggSend(w, hv, nargs, args, ok)
vrpcRecv(w, hv, nargs, dests, ok) == vcommRecv(w, hv, FALSE, nargs, dests, ok)
vrpcRecvRealloc(w, hv, nargs, dests, ok) ==
  vcommRecv(w, hv, TRUE, nargs, dests, ok)

\* The arguments of a call: the first Len(fmt_out) are the request's values
\* (item.val), the others the response's destinations.
CallVals(hv, args) ==
  LET n == Min(Len(hv.fmt_out), Len(args))
  IN  [i \in 1..n |-> args[i].val]
CallDests(hv, args) ==
  SubSeq(args, Len(hv.fmt_out) + 1, Len(args))

\* The call up to the point where it blocks for the response: wait tells
\* whether it goes on to receive.
rpcCallBegin(w, hv, realloc, nargs, args, ok) ==
  IF ~hv.open
  THEN [res |-> Failed(w, "ChannelClosed"), wait |-> FALSE, realloc |-> realloc]
  ELSE IF nargs # Len(hv.fmt_out) + Len(hv.fmt_in)
  THEN [res |-> Failed(w, "ArgumentCountMismatch"), wait |-> FALSE,
        realloc |-> realloc]
  ELSE LET s == vrpcSend(w, hv, Len(hv.fmt_out), CallVals(hv, args), ok)
       IN  [res |-> s, wait |-> s.st.ret >= 0, realloc |-> realloc]

vrpcCall(w, hv, nargs, args, ok) == rpcCallBegin(w, hv, FALSE, nargs, args, ok)
vrpcCallRealloc(w, hv, nargs, args, ok) ==
  rpcCallBegin(w, hv, TRUE, nargs, args, ok)

\* The rest of the call: the blocking receive of the response.
rpcCallEnd(w, hv, realloc, dests, ok) ==
  IF realloc THEN vrpcRecvRealloc(w, hv, Len(hv.fmt_in), dests, ok)
  ELSE vrpcRecv(w, hv, Len(hv.fmt_in), dests, ok)

(***************************************************************************)
(* The wrapper methods: each passes the object's handle to one C function. *)
(***************************************************************************)
YggInput_pi(w, o) == w.h[o]
YggOutput_pi(w, o) == w.h[o]
YggRpc_pi(w, o) == w.h[o]

\* A bounded receive that drops the message it could not store.
YggInput_recv_drop(w, o, cap, ok) ==
  LET r == ygg_recv(w, w.h[o], cap, ok)
  IN  IF r.st.err = "BufferTooSmall"
      THEN [r EXCEPT !.w = transport_pop(w, w.h[o].in, 1)]
      ELSE r
YggInput_recv(w, o, cap, ok) == ygg_recv(w, w.h[o], cap, ok)
\* The fixed-mode receive with the grow flag set.
YggInput_recv_fmt_growable(w, o, nargs, dests, ok) ==
  vcommRecv(w, w.h[o], TRUE, nargs, dests, ok)
\* The fixed-mode receive passing one argument too few.
YggInput_recv_fmt_miscount(w, o, nargs, dests, ok) ==
  vcommRecv(w, w.h[o], FALSE, nargs - 1, dests, ok)
\* The growable receive with the grow flag cleared.
YggInput_recvRealloc_fixed(w, o, nargs, dests, ok) ==
  vcommRecv(w, w.h[o], FALSE, nargs, dests, ok)
YggInput_recv_fmt(w, o, nargs, dests, ok) ==
  vcommRecv(w, w.h[o], FALSE, nargs, dests, ok)
YggInput_recvRealloc(w, o, nargs, dests, ok) ==
  vcommRecv(w, w.h[o], TRUE, nargs, dests, ok)
\* The unbounded receive handed to the bounded C routine.
YggInput_recv_nolimit_bounded(w, o, cap, ok) == ygg_recv(w, w.h[o], cap, ok)
YggInput_recv_nolimit(w, o, cap, ok) == ygg_recv_nolimit(w, w.h[o], cap, ok)
YggInput_recv_nolimit_fmt(w, o, nargs, dests, ok) ==
  vyggRecv(w, w.h[o], FALSE, nargs, dests, ok)

\* The bounded send handed to the unbounded C routine.
YggOutput_send_unbounded(w, o, data, ok) ==
  ygg_send_nolimit(w, w.h[o], data, ok)
YggOutput_send(w, o, data, ok) == ygg_send(w, w.h[o], data, ok)
\* The formatted send passing one argument too few.
YggOutput_send_fmt_miscount(w, o, nargs, args, ok) ==
  vyggSend(w, w.h[o], nargs - 1, args, ok)
YggOutput_send_fmt(w, o, nargs, args, ok) ==
  vyggSend(w, w.h[o], nargs, args, ok)
\* The unbounded send handed to the bounded C routine.
YggOutput_send_nolimit_bounded(w, o, data, ok) ==
  ygg_send(w, w.h[o], data, ok)
YggOutput_send_nolimit(w, o, data, ok) ==
  ygg_send_nolimit(w, w.h[o], data, ok)
\* The formatted unbounded send handed, packed, to the chunked C routine.
YggOutput_send_nolimit_fmt_chunked(w, o, nargs, args, ok) ==
  LET p == pack(w.h[o].fmt_out, SubSeq(args, 1, Min(nargs, Len(args))))
  IN  IF ~w.h[o].open THEN Failed(w, "ChannelClosed")
      ELSE IF p.st.ret < 0 THEN Failed(w, p.st.err)
      ELSE ygg_send_nolimit(w, w.h[o], p.bytes, ok)
YggOutput_send_nolimit_fmt(w, o, nargs, args, ok) ==
  vyggSend(w, w.h[o], nargs, args, ok)
\* send_eof written as the send of an empty message.
YggOutput_send_eof_empty(w, o, ok) == ygg_send(w, w.h[o], <<>>, ok)
\* send_eof that also tears the handle down.
YggOutput_send_eof_close(w, o, ok) ==
  LET r == ygg_send_eof(w, w.h[o], ok)
      f == ygg_free(r.w, r.w.h[o])
  IN  [r EXCEPT !.w = [f.w EXCEPT !.h[o] = f.hv]]
YggOutput_send_eof(w, o, ok) == ygg_send_eof(w, w.h[o], ok)

YggRpc_send(w, o, nargs, args, ok) == vrpcSend(w, w.h[o], nargs, args, ok)
YggRpc_recv(w, o, nargs, dests, ok) == vrpcRecv(w, w.h[o], nargs, dests, ok)
YggRpc_recvRealloc(w, o, nargs, dests, ok) ==
  vrpcRecvRealloc(w, w.h[o], nargs, dests, ok)

\* A call written as a send followed, whatever the send returned, by a
\* receive.
YggRpcClient_call_sendrecv(w, o, nargs, args, ok) ==
  [vrpcCall(w, YggRpc_pi(w, o), nargs, args, ok) EXCEPT !.wait = TRUE]
\* A call that passes the descriptors' field counts instead of nargs.
YggRpcClient_call_fixedcount(w, o, nargs, args, ok) ==
  LET _cpi == YggRpc_pi(w, o)
      n == Len(_cpi.fmt_out) + Len(_cpi.fmt_in)
  IN  vrpcCall(w, _cpi, n, args, ok)
YggRpcClient_call(w, o, nargs, args, ok) ==
  LET _cpi == YggRpc_pi(w, o) IN vrpcCall(w, _cpi, nargs, args, ok)

\* callRealloc handed to the fixed-destination C routine.
YggRpcClient_callRealloc_fixed(w, o, nargs, args, ok) ==
  LET _cpi == YggRpc_pi(w, o) IN vrpcCall(w, _cpi, nargs, args, ok)
YggRpcClient_callRealloc_sendrecv(w, o, nargs, args, ok) ==
  [vrpcCallRealloc(w, YggRpc_pi(w, o), nargs, args, ok) EXCEPT !.wait = TRUE]
YggRpcClient_callRealloc(w, o, nargs, args, ok) ==
  LET _cpi == YggRpc_pi(w, o) IN vrpcCallRealloc(w, _cpi, nargs, args, ok)

(***************************************************************************)
(* The state after construction: every handle Open and bound to its        *)
(* transport resource, every channel empty.  The program constructs either *)
(* an Input and an Output on one channel, or an RPC client and server.     *)
(***************************************************************************)
Programs == {{"in", "out"}, {"cli", "srv"}}

\* The Output objects of the two-senders program.
Senders == {"out", "out2"}

\* The descriptors bound at construction (field widths).
ChanFmt == <<2>>
ReqFmt == <<1>>
RespFmt == <<2>>

\* resolved: the name the handle was constructed from resolved.
Handle(out, in, fmt_out, fmt_in) ==
  [open |-> TRUE, resolved |-> TRUE, out |-> out, in |-> in,
   fmt_out |-> fmt_out, fmt_in |-> fmt_in]

\* A descriptor is well formed when every field width is positive.
WellFormedFmt(fmt) == \A i \in 1..Len(fmt) : fmt[i] >= 1

\* The handle of a construction that failed: bound to nothing, never Open.
InvalidHandle(resolves, fmt_out, fmt_in) ==
  [Handle(None, None, fmt_out, fmt_in) EXCEPT !.open = FALSE,
                                              !.resolved = resolves]

\* yggInputFmt(name, fmt) and yggOutputFmt(name, fmt); resolves: the name
\* resolves through the environment.
yggInputFmt(resolves, fmt) ==
  IF resolves /\ WellFormedFmt(fmt) THEN Handle(None, "rIn", <<>>, fmt)
  ELSE InvalidHandle(resolves, <<>>, fmt)
yggOutputFmt(resolves, fmt) ==
  IF resolves /\ WellFormedFmt(fmt) THEN Handle("rOut", None, fmt, <<>>)
  ELSE InvalidHandle(resolves, fmt, <<>>)

\* A constructor that binds the channel and keeps the descriptor unchecked.
YggInput_unchecked(resolves, fmt) == Handle(None, "rIn", <<>>, fmt)
YggOutput_unchecked(resolves, fmt) == Handle("rOut", None, fmt, <<>>)

\* YggInput(name, fmt) and YggOutput(name, fmt) for any name and descriptor.
YggInput_fmt(resolves, fmt) == yggInputFmt(resolves, fmt)
YggOutput_fmt(resolves, fmt) == yggOutputFmt(resolves, fmt)
\* YggOutput(yggOutput_t x): the object keeps a copy of the struct it is
\* given.
YggOutput_byvalue(x) == x
\* YggInput(name, fmt), YggOutput(name, fmt), YggRpcClient(name, outFormat,
\* inFormat), YggRpcServer(name, inFormat, outFormat).
YggInput_ctor == Handle(None, "rIn", <<>>, ChanFmt)
YggOutput_ctor == Handle("rOut", None, ChanFmt, <<>>)
\* A second YggOutput(name, fmt) on the same channel name.
YggOutput2_ctor == Handle("rOut2", None, ChanFmt, <<>>)
YggRpcClient_ctor == Handle("cliReq", "cliResp", ReqFmt, RespFmt)
YggRpcServer_ctor == Handle("srvResp", "srvReq", RespFmt, ReqFmt)

NoStatus == [ret |-> -1, err |-> "NotAttempted"]

\* No request put, no response returned, the server holding no request.
IdleLoop == [reqs |-> <<>>, rets |-> <<>>, held |-> <<>>]

IdleCall ==
  [pc |-> "idle", mode |-> "none", realloc |-> FALSE,
   cpi |-> YggRpcClient_ctor, nargs |-> 0,
   dests |-> <<>>, sendSt |-> NoStatus, recvSt |-> NoStatus, st |-> NoStatus,
   sendAtt |-> 0, recvAtt |-> 0, pushed |-> 0, popped |-> 0]

Init ==
  /\ h = [o \in Objs |->
            CASE o = "in" -> YggInput_ctor
              [] o = "out" -> YggOutput_ctor
              [] o = "out2" -> YggOutput2_ctor
              [] o = "cli" -> YggRpcClient_ctor
              [] OTHER -> YggRpcServer_ctor]
  /\ \E prog \in Programs :
        life = [o \in Objs |-> IF o \in prog THEN "live" ELSE "unborn"]
  /\ teardowns = [o \in Objs |-> 0]
  /\ released = [r \in Resources |-> 0]
  /\ badAccess = FALSE
  /\ chan = [c \in Chans |-> <<>>]
  /\ sent = <<>>
  /\ rcvd = <<>>
  /\ call = IdleCall
  /\ ncalls = 0
  /\ pend = [o \in Senders |-> <<>>]
  /\ loop = IdleLoop
  /\ last = [op |-> "ctor", obj |-> None, pre |-> TRUE, ok |-> TRUE,
             arg |-> <<>>, st |-> Ok(0), tx |-> 0, rx |-> 0, pushed |-> 0,
             popped |-> 0, delta |-> 0, data |-> <<>>, cap |-> 0,
             dests |-> <<>>]

\* The number of transport units waiting in all channels of world w.
Queued(w) == Len(w.chan["ch"]) + Len(w.chan["req"]) + Len(w.chan["resp"])

\* Take over the world a C call left, and record the call in last (delta: by
\* how many units the channels grew).
Do(op, o, arg, ok, r) ==
  /\ h' = r.w.h
  /\ released' = r.w.rel
  /\ chan' = r.w.chan
  /\ badAccess' = r.w.bad
  /\ last' = [op |-> op, obj |-> o, pre |-> h[o].open, ok |-> ok,
              arg |-> arg, st |-> r.st, tx |-> r.tx, rx |-> r.rx,
              pushed |-> r.pushed, popped |-> r.popped,
              delta |-> Queued(r.w) - Queued(World("none")),
              data |-> r.data, cap |-> r.cap, dests |-> r.dests]

\* The client's thread is inside a call.
Busy(o) == o = "cli" /\ call.pc # "idle"

(***************************************************************************)
(* Teardown                                                                *)
(***************************************************************************)
\* An explicit o._destroy_pi().
DestroyPi(o) ==
  /\ life[o] = "live" /\ ~Busy(o)
  /\ teardowns[o] < MaxTeardowns
  /\ Do("_destroy_pi", o, <<>>, TRUE,
        Result(destroy_pi(World("none"), o), Ok(0), 0, 0, 0, 0, <<>>, 0, <<>>))
  /\ teardowns' = [teardowns EXCEPT ![o] = @ + 1]
  /\ UNCHANGED <<loop, pend, life, sent, rcvd, call, ncalls>>

\* The destructor of o, at the end of the object's life.
Destruct(o) ==
  /\ life[o] = "live" /\ ~Busy(o)
  /\ Do("dtor", o, <<>>, TRUE,
        Result(dtor(World("none"), o), Ok(0), 0, 0, 0, 0, <<>>, 0, <<>>))
  /\ teardowns' = [teardowns EXCEPT ![o] = @ + DtorTeardowns(o)]
  /\ life' = [life EXCEPT ![o] = "dead"]
  /\ UNCHANGED <<loop, pend, sent, rcvd, call, ncalls>>

(***************************************************************************)
(* Operations of the Output object "out"                                   *)
(***************************************************************************)
\* A send that can succeed is made only while the run's budget allows.
CanSend == h["out"].open => Len(sent) < MaxMsgs

Sent(r, msg) == sent' = IF r.st.ret >= 0 THEN Append(sent, msg) ELSE sent

\* out.send(data, len)
Send(data, ok) ==
  /\ life["out"] = "live" /\ CanSend
  /\ LET r == YggOutput_send(World("send"), "out", data, ok)
     IN  Do("send", "out", data, ok, r) /\ Sent(r, data)
  /\ UNCHANGED <<loop, pend, life, teardowns, rcvd, call, ncalls>>

\* out.send(nargs, ...)
SendFmt(args, ok) ==
  /\ life["out"] = "live" /\ CanSend
  /\ LET r == YggOutput_send_fmt(World("send_fmt"), "out", Len(args), args, ok)
     IN  Do("send_fmt", "out", args, ok, r) /\ Sent(r, args)
  /\ UNCHANGED <<loop, pend, life, teardowns, rcvd, call, ncalls>>

\* out.send_nolimit(data, len)
SendNolimit(data, ok) ==
  /\ life["out"] = "live" /\ CanSend
  /\ LET r == YggOutput_send_nolimit(World("send_nolimit"), "out", data, ok)
     IN  Do("send_nolimit", "out", data, ok, r) /\ Sent(r, data)
  /\ UNCHANGED <<loop, pend, life, teardowns, rcvd, call, ncalls>>

\* out.send_nolimit(nargs, ...)
SendNolimitFmt(args, ok) ==
  /\ life["out"] = "live" /\ CanSend
  /\ LET r == YggOutput_send_nolimit_fmt(World("send_nolimit_fmt"), "out",
                                         Len(args), args, ok)
     IN  Do("send_nolimit_fmt", "out", args, ok, r) /\ Sent(r, args)
  /\ UNCHANGED <<loop, pend, life, teardowns, rcvd, call, ncalls>>

\* out.send_eof(); at most one end-of-stream unit waits in the channel.
SendEof(ok) ==
  /\ life["out"] = "live"
  /\ h["out"].open =>
       \A i \in 1..Len(chan["ch"]) : chan["ch"][i].bytes # YGG_MSG_EOF
  /\ LET r == YggOutput_send_eof(World("send_eof"), "out", ok)
     IN  Do("send_eof", "out", <<>>, ok, r)
  /\ UNCHANGED <<loop, pend, life, teardowns, sent, rcvd, call, ncalls>>

(***************************************************************************)
(* Operations of the Input object "in"                                     *)
(***************************************************************************)
\* A receive on an Open handle blocks until a unit waits in the channel (or
\* the transport fails); the peer calls the receive routine that matches
\* the send routine of the unit at the head.
CanRecv(o, c, apis, ok) ==
  (h[o].open /\ ok) =>
     (chan[c] # <<>> /\ Head(chan[c]).api \in (apis \cup {"send_eof"}))

Rcvd(r, msg) == rcvd' = IF r.st.ret >= 0 THEN Append(rcvd, msg) ELSE rcvd

DestVals(dests) == [i \in 1..Len(dests) |-> dests[i].val]

\* in.recv(data, len)
Recv(cap, ok) ==
  /\ life["in"] = "live" /\ CanRecv("in", "ch", {"send"}, ok)
  /\ LET r == YggInput_recv(World("none"), "in", cap, ok)
     IN  Do("recv", "in", cap, ok, r) /\ Rcvd(r, r.data)
  /\ UNCHANGED <<loop, pend, life, teardowns, sent, call, ncalls>>

\* in.recv(nargs, ...)
RecvFmt(dests, ok) ==
  /\ life["in"] = "live" /\ CanRecv("in", "ch", {"send_fmt"}, ok)
  /\ LET r == YggInput_recv_fmt(World("none"), "in", Len(dests), dests, ok)
     IN  Do("recv_fmt", "in", dests, ok, r) /\ Rcvd(r, DestVals(r.dests))
  /\ UNCHANGED <<loop, pend, life, teardowns, sent, call, ncalls>>

\* in.recvRealloc(nargs, ...)
RecvRealloc(dests, ok) ==
  /\ life["in"] = "live" /\ CanRecv("in", "ch", {"send_fmt"}, ok)
  /\ LET r == YggInput_recvRealloc(World("none"), "in", Len(dests), dests, ok)
     IN  Do("recvRealloc", "in", dests, ok, r) /\ Rcvd(r, DestVals(r.dests))
  /\ UNCHANGED <<loop, pend, life, teardowns, sent, call, ncalls>>

\* in.recv_nolimit(data, len)
RecvNolimit(cap, ok) ==
  /\ life["in"] = "live" /\ CanRecv("in", "ch", {"send_nolimit"}, ok)
  /\ LET r == YggInput_recv_nolimit(World("none"), "in", cap, ok)
     IN  Do("recv_nolimit", "in", cap, ok, r) /\ Rcvd(r, r.data)
  /\ UNCHANGED <<loop, pend, life, teardowns, sent, call, ncalls>>

\* in.recv_nolimit(nargs, ...)
RecvNolimitFmt(dests, ok) ==
  /\ life["in"] = "live" /\ CanRecv("in", "ch", {"send_nolimit_fmt"}, ok)
  /\ LET r == YggInput_recv_nolimit_fmt(World("none"), "in", Len(dests),
                                        dests, ok)
     IN  Do("recv_nolimit_fmt", "in", dests, ok, r)
         /\ Rcvd(r, DestVals(r.dests))
  /\ UNCHANGED <<loop, pend, life, teardowns, sent, call, ncalls>>

(***************************************************************************)
(* Operations of the RPC objects "cli" and "srv"                           *)
(***************************************************************************)
OutChan(o) == ResChan(h[o].out)
InChan(o) == ResChan(h[o].in)

\* o.send(nargs, ...)
RpcSendOp(o, args, ok) ==
  /\ life[o] = "live" /\ ~Busy(o)
  /\ h[o].open => Len(chan[OutChan(o)]) < MaxQueue
  /\ LET r == YggRpc_send(World("send_fmt"), o, Len(args), args, ok)
     IN  Do("rpc_send", o, args, ok, r)
  /\ UNCHANGED <<pend, life, teardowns, sent, rcvd, call, ncalls>>
RpcSend(o, args, ok) == RpcSendOp(o, args, ok) /\ UNCHANGED loop

\* o.recv(nargs, ...)
RpcRecvOp(o, dests, ok) ==
  /\ life[o] = "live" /\ ~Busy(o) /\ CanRecv(o, InChan(o), {"send_fmt"}, ok)
  /\ LET r == YggRpc_recv(World("none"), o, Len(dests), dests, ok)
     IN  Do("rpc_recv", o, dests, ok, r)
  /\ UNCHANGED <<pend, life, teardowns, sent, rcvd, call, ncalls>>
RpcRecv(o, dests, ok) == RpcRecvOp(o, dests, ok) /\ UNCHANGED loop

\* o.recvRealloc(nargs, ...)
RpcRecvRealloc(o, dests, ok) ==
  /\ life[o] = "live" /\ ~Busy(o) /\ CanRecv(o, InChan(o), {"send_fmt"}, ok)
  /\ LET r == YggRpc_recvRealloc(World("none"), o, Len(dests), dests, ok)
     IN  Do("rpc_recvRealloc", o, dests, ok, r)
  /\ UNCHANGED <<loop, pend, life, teardowns, sent, rcvd, call, ncalls>>

\* cli.call(nargs, ...) and cli.callRealloc(nargs, ...), up to the point
\* where the call blocks for the response.
CallStartOp(realloc, nargs, args, ok) ==
  /\ life["cli"] = "live" /\ call.pc = "idle" /\ ncalls < MaxCalls
  /\ h["cli"].open => Len(chan["req"]) < MaxQueue
  /\ LET w == World("send_fmt")
         b == IF realloc
              THEN YggRpcClient_callRealloc(w, "cli", nargs, args, ok)
              ELSE YggRpcClient_call(w, "cli", nargs, args, ok)
     IN  /\ Do(IF realloc THEN "callRealloc" ELSE "call", "cli", args, ok,
               b.res)
         /\ call' = [pc |-> IF b.wait THEN "recv" ELSE "idle",
                     mode |-> IF realloc THEN "callRealloc" ELSE "call",
                     realloc |-> b.realloc, cpi |-> YggRpc_pi(w, "cli"),
                     nargs |-> nargs, dests |-> CallDests(h["cli"], args),
                     sendSt |-> b.res.st, recvSt |-> NoStatus,
                     st |-> IF b.wait THEN NoStatus ELSE b.res.st,
                     sendAtt |-> b.res.tx, recvAtt |-> 0,
                     pushed |-> b.res.pushed, popped |-> 0]
  /\ ncalls' = ncalls + 1
  /\ UNCHANGED <<pend, life, teardowns, sent, rcvd>>
CallStart(realloc, nargs, args, ok) ==
  CallStartOp(realloc, nargs, args, ok) /\ UNCHANGED loop

\* The blocked call receives the response (or the transport fails) and
\* returns.
CallRecvOp(ok) ==
  /\ call.pc = "recv"
  /\ (call.cpi.open /\ ok) => chan["resp"] # <<>>
  /\ LET r == rpcCallEnd(World("none"), call.cpi, call.realloc, call.dests,
                         ok)
     IN  /\ Do("call_recv", "cli", call.dests, ok, r)
         /\ call' = [call EXCEPT !.pc = "idle", !.recvSt = r.st, !.st = r.st,
                                 !.recvAtt = r.rx, !.popped = r.popped,
                                 !.dests = r.dests]
  /\ UNCHANGED <<pend, life, teardowns, sent, rcvd, ncalls>>
CallRecv(ok) == CallRecvOp(ok) /\ UNCHANGED loop

(***************************************************************************)
(* Inputs                                                                  *)
(***************************************************************************)
\* A payload of n bytes, all different.
Pattern(n, s) == [i \in 1..n |-> 2 * i + s]

PayloadLens ==
  {0, 1, YGG_MSG_MAX - 1, YGG_MSG_MAX, YGG_MSG_MAX + 1, 10 * YGG_MSG_MAX}
Payloads ==
  {Pattern(n, 0) : n \in PayloadLens}
    \cup {Pattern(n, 1) : n \in {1, YGG_MSG_MAX}}
Caps == {0, YGG_MSG_MAX, 10 * YGG_MSG_MAX}

\* Inputs of the life-cycle specification.
SmallData == {<<1>>}
SmallArgs == {<< <<1>> >>}
SmallDests == {<<[cap |-> 2, val |-> <<>>]>>}

\* Arguments of an RPC call: nargs items, each a value to send (val) or a
\* destination of some capacity (cap).
CallItems ==
  {[cap |-> 0, val |-> <<1>>], [cap |-> 2, val |-> <<1>>],
   [cap |-> 2, val |-> <<1, 1>>]}
CallArgs(nargs) == {[i \in 1..nargs |-> it] : it \in CallItems}
CallCounts == 1..3
Replies == {<< <<>> >>, << <<7, 7>> >>}
ServerDests == {<<[cap |-> 1, val |-> <<>>]>>}

(***************************************************************************)
(* Spec: the life cycle of the four objects, every operation callable in   *)
(* every state of its handle.                                              *)
(***************************************************************************)
Next ==
  \/ \E o \in Objs : DestroyPi(o)
  \/ \E o \in Objs : Destruct(o)
  \/ \E d \in SmallData, ok \in BOOLEAN : Send(d, ok)
  \/ \E a \in SmallArgs, ok \in BOOLEAN : SendFmt(a, ok)
  \/ \E d \in SmallData, ok \in BOOLEAN : SendNolimit(d, ok)
  \/ \E a \in SmallArgs, ok \in BOOLEAN : SendNolimitFmt(a, ok)
  \/ \E ok \in BOOLEAN : SendEof(ok)
  \/ \E ok \in BOOLEAN : Recv(YGG_MSG_MAX, ok)
  \/ \E d \in SmallDests, ok \in BOOLEAN : RecvFmt(d, ok)
  \/ \E d \in SmallDests, ok \in BOOLEAN : RecvRealloc(d, ok)
  \/ \E ok \in BOOLEAN : RecvNolimit(YGG_MSG_MAX, ok)
  \/ \E d \in SmallDests, ok \in BOOLEAN : RecvNolimitFmt(d, ok)
  \/ \E o \in {"cli", "srv"}, a \in SmallArgs, ok \in BOOLEAN :
        RpcSend(o, a, ok)
  \/ \E o \in {"cli", "srv"}, d \in SmallDests, ok \in BOOLEAN :
        RpcRecv(o, d, ok)
  \/ \E o \in {"cli", "srv"}, d \in SmallDests, ok \in BOOLEAN :
        RpcRecvRealloc(o, d, ok)
  \/ \E realloc \in BOOLEAN, ok \in BOOLEAN :
        CallStart(realloc, 2, <<[cap |-> 2, val |-> <<1>>],
                                [cap |-> 2, val |-> <<>>]>>, ok)
  \/ \E ok \in BOOLEAN : CallRecv(ok)

Spec == Init /\ [][Next]_vars

(***************************************************************************)
(* SpecRpc: the RPC client's calls against a server, with every argument   *)
(* count, both destination policies and a transport that may fail.         *)
(***************************************************************************)
InitRpc == Init /\ life["cli"] = "live"

NextRpc ==
  \/ \E realloc \in BOOLEAN, nargs \in CallCounts, ok \in BOOLEAN :
        \E args \in CallArgs(nargs) : CallStart(realloc, nargs, args, ok)
  \/ \E ok \in BOOLEAN : CallRecv(ok)
  \/ \E d \in ServerDests, ok \in BOOLEAN : RpcRecv("srv", d, ok)
  \/ \E a \in Replies, ok \in BOOLEAN : RpcSend("srv", a, ok)
  \/ DestroyPi("cli")

SpecRpc == InitRpc /\ [][NextRpc]_vars

(***************************************************************************)
(* SpecXfer: raw bounded and unbounded transfers between the Output and    *)
(* the Input object, payloads around the inline limit and far over it.     *)
(***************************************************************************)
InitXfer == Init /\ life["in"] = "live"

NextXfer ==
  \/ \E d \in Payloads, ok \in BOOLEAN : Send(d, ok)
  \/ \E d \in Payloads, ok \in BOOLEAN : SendNolimit(d, ok)
  \/ \E ok \in BOOLEAN : SendEof(ok)
  \/ \E cap \in Caps, ok \in BOOLEAN : Recv(cap, ok)
  \/ \E cap \in Caps, ok \in BOOLEAN : RecvNolimit(cap, ok)

SpecXfer == InitXfer /\ [][NextXfer]_vars

(***************************************************************************)
(* Properties                                                              *)
(***************************************************************************)
TeardownOps == {"ctor", "_destroy_pi", "dtor"}

\* C1: for an Input or an Output object, whatever number of explicit
\* teardowns precedes the destructor, the transport resource is released
\* exactly once: by the first teardown, and never again by a later one.
C1_TeardownReleasesOnce ==
  \A o \in {"in", "out"} :
    /\ life[o] = "dead" => teardowns[o] >= 1
    /\ \A r \in HandleRes(h[o]) :
         released[r] = IF teardowns[o] = 0 THEN 0 ELSE 1

\* Two explicit teardowns and then the destructor: one release.
C1_Witness ==
  /\ life["in"] = "dead"
  /\ teardowns["in"] = MaxTeardowns + 1
  /\ released["rIn"] = 1

\* C2: destroying an RPC server or client, whose derived destructor and base
\* destructor both tear the session down, releases each of the session's
\* two transport resources exactly once.
C2_RpcSessionReleasedOnce ==
  \A o \in {"cli", "srv"} :
    \A r \in HandleRes(h[o]) :
      /\ released[r] <= 1
      /\ life[o] = "dead" => (teardowns[o] >= 2 /\ released[r] = 1)

\* A client destroyed by its destructor alone (two teardowns).
C2_Witness ==
  /\ life["cli"] = "dead"
  /\ teardowns["cli"] = 2
  /\ released["cliReq"] = 1
  /\ released["cliResp"] = 1

\* C3 (state part): a handle is Open exactly while its resources are
\* unreleased; every operation other than teardown made on a Closed handle
\* returns the negative status ChannelClosed without any transport activity;
\* no released resource is ever read or written.
C3_ClosedFails ==
  /\ ~badAccess
  /\ \A o \in Objs : \A r \in HandleRes(h[o]) :
       (released[r] > 0) <=> ~h[o].open
  /\ (last.op \notin TeardownOps /\ ~last.pre) =>
       /\ last.st.ret < 0
       /\ last.st.err = "ChannelClosed"
       /\ last.tx = 0 /\ last.rx = 0
       /\ last.pushed = 0 /\ last.popped = 0
  /\ (ncalls > 0 /\ call.pc = "idle" /\ ~call.cpi.open) =>
       call.st = Fail("ChannelClosed")

\* C3: the state part always holds, and a Closed handle never becomes Open
\* again.
C3_ClosedHandle ==
  /\ []C3_ClosedFails
  /\ [][\A o \in Objs : ~h[o].open => ~h'[o].open]_vars

\* A receive attempted on the Input object after its teardown.
C3_Witness ==
  /\ last.op = "recv" /\ ~last.pre
  /\ last.st.err = "ChannelClosed"
  /\ life["in"] = "live"
  /\ released["rIn"] = 1

\* The call has returned (CallDone) with the status call.st.
CallDone == ncalls > 0 /\ call.pc = "idle"

\* C4: in call and callRealloc the receive on the response half is attempted
\* only after the send on the request half succeeded; if the send fails the
\* call makes no receive attempt and returns the send's failure.
C4_NoRecvAfterFailedSend ==
  /\ call.pc = "recv" => call.sendSt.ret >= 0
  /\ call.recvAtt > 0 => call.sendSt.ret >= 0
  /\ (CallDone /\ call.sendSt.ret < 0) =>
       /\ call.recvAtt = 0 /\ call.popped = 0
       /\ call.recvSt = NoStatus
       /\ call.st = call.sendSt

\* The transport refused the request although a response was waiting.
C4_Witness ==
  /\ CallDone
  /\ call.sendSt = Fail("TransportFailure")
  /\ call.sendAtt = 1 /\ call.recvAtt = 0
  /\ chan["resp"] # <<>>

\* C5: a call returns a non-negative status exactly when both its send and
\* its receive succeeded; if the send succeeds and the receive fails it
\* returns the receive's negative status.
C5_CallStatus ==
  CallDone =>
    /\ call.st.ret >= 0 <=> (call.sendSt.ret >= 0 /\ call.recvSt.ret >= 0)
    /\ (call.sendSt.ret >= 0 /\ call.recvSt.ret < 0) =>
         (call.st = call.recvSt /\ call.recvAtt = 1)

\* The request was sent and the response did not fit the destination.
C5_Witness ==
  /\ CallDone
  /\ call.sendSt.ret >= 0 /\ call.sendAtt = 1
  /\ call.recvSt = Fail("BufferTooSmall")
  /\ call.st = call.recvSt

\* C6: a call whose argument count differs from the request descriptor's
\* field count plus the response descriptor's makes no transport activity
\* at all (nothing sent, no receive attempted), and on an Open handle it
\* fails with ArgumentCountMismatch.
C6_ArgumentCountMismatch ==
  (ncalls > 0
     /\ call.nargs # Len(call.cpi.fmt_out) + Len(call.cpi.fmt_in)) =>
    /\ call.pc = "idle"
    /\ call.st.ret < 0
    /\ call.cpi.open => call.st = Fail("ArgumentCountMismatch")
    /\ call.sendAtt = 0 /\ call.recvAtt = 0
    /\ call.pushed = 0 /\ call.popped = 0
    /\ last.op \in {"call", "callRealloc"} =>
         (last.tx = 0 /\ last.rx = 0 /\ last.delta = 0)

\* One argument too many on an Open handle.
C6_Witness ==
  /\ last.op = "call" /\ last.pre
  /\ call.nargs = Len(ReqFmt) + Len(RespFmt) + 1
  /\ call.st = Fail("ArgumentCountMismatch")

\* The unit at the tail of the channel between "out" and "in".
LastUnit == chan["ch"][Len(chan["ch"])]

\* C7: on an Open handle, a bounded send of at most YGG_MSG_MAX bytes that
\* the transport accepts succeeds as one transport operation carrying the
\* message as one unit; a bounded send of more bytes fails with
\* MessageTooLarge and puts nothing on the channel.
C7_BoundedSend ==
  (last.op = "send" /\ last.pre) =>
    /\ (Len(last.arg) <= YGG_MSG_MAX /\ last.ok) =>
         /\ last.st.ret >= 0
         /\ last.tx = 1 /\ last.delta = 1
         /\ LastUnit.bytes = last.arg
    /\ Len(last.arg) > YGG_MSG_MAX =>
         /\ last.st = Fail("MessageTooLarge")
         /\ last.tx = 0 /\ last.delta = 0

\* A message of exactly the limit was sent, then one a byte longer refused.
C7_Witness ==
  /\ last.op = "send"
  /\ Len(last.arg) = YGG_MSG_MAX + 1
  /\ last.st = Fail("MessageTooLarge")
  /\ Len(sent) = 1 /\ Len(sent[1]) = YGG_MSG_MAX
  /\ chan["ch"] = <<[api |-> "send", bytes |-> sent[1]]>>

\* The payload bytes of a sequence of chunk units (without their two-byte
\* headers), joined.
RECURSIVE JoinChunks(_)
JoinChunks(units) ==
  IF units = <<>> THEN <<>>
  ELSE SubSeq(Head(units).bytes, 3, Len(Head(units).bytes))
         \o JoinChunks(Tail(units))

\* The units the last operation appended to the channel.
LastUnits ==
  SubSeq(chan["ch"], Len(chan["ch"]) - last.delta + 1, Len(chan["ch"]))

\* C8: an unbounded send the transport accepts puts the payload on the
\* channel as one or more chunks of at most YGG_MSG_MAX bytes that join to
\* the payload, whatever its size; an unbounded receive of it returns one
\* message whose bytes and length are the payload's.
C8_UnboundedRoundTrip ==
  /\ (last.op = "send_nolimit" /\ last.pre /\ last.ok) =>
       /\ last.st.ret >= 0
       /\ last.delta >= 1
       /\ \A i \in 1..Len(LastUnits) :
            /\ Len(LastUnits[i].bytes) >= 2
            /\ Len(LastUnits[i].bytes) <= YGG_MSG_MAX + 2
            /\ LastUnits[i].bytes[1] = (IF i < Len(LastUnits) THEN 1 ELSE 0)
            /\ LastUnits[i].bytes[2] = Len(LastUnits[i].bytes) - 2
       /\ JoinChunks(LastUnits) = last.arg
  /\ (last.op = "recv_nolimit" /\ last.pre /\ last.ok) =>
       last.st.err \in {"OK", "EOF"}
  /\ (last.op = "recv_nolimit" /\ last.st.ret >= 0) =>
       /\ rcvd # <<>> /\ Len(rcvd) <= Len(sent)
       /\ last.data = sent[Len(rcvd)]
       /\ last.st.ret = Len(sent[Len(rcvd)])

\* A payload of ten times the limit came back whole.
C8_Witness ==
  /\ last.op = "recv_nolimit"
  /\ last.st.ret = 10 * YGG_MSG_MAX
  /\ last.popped = 10
  /\ last.data = sent[Len(rcvd)]

\* C9: the unbounded receive returns the whole message whatever capacity
\* the caller declares: it never fails with BufferTooSmall and never
\* truncates, and the buffer ends at least as large as the message (and no
\* smaller than it was).
C9_UnboundedRecvGrows ==
  (last.op = "recv_nolimit" /\ last.pre /\ last.ok /\ last.st.err # "EOF") =>
    /\ last.st.err = "OK"
    /\ rcvd # <<>> /\ Len(rcvd) <= Len(sent)
    /\ last.st.ret = Len(sent[Len(rcvd)])
    /\ Len(last.data) = last.st.ret
    /\ last.cap = Max(last.arg, last.st.ret)

\* The caller declared capacity 0 and got ten times the limit.
C9_Witness ==
  /\ last.op = "recv_nolimit"
  /\ last.arg = 0
  /\ last.st.ret = 10 * YGG_MSG_MAX
  /\ last.cap = 10 * YGG_MSG_MAX

\* The messages waiting in the channel between "out" and "in": the units
\* that end a message.
InFlight ==
  Cardinality({i \in 1..Len(chan["ch"]) :
     LET u == chan["ch"][i]
     IN  \/ u.api = "send"
         \/ u.api = "send_nolimit" /\ u.bytes # <<>> /\ u.bytes[1] = 0})

\* C10: the messages received are a prefix of the messages sent, in
\* send-call order, and every message sent is either received once or still
\* waiting: nothing is reordered, duplicated or delivered twice.
C10_FifoPrefix ==
  /\ IsPrefix(rcvd, sent)
  /\ Len(sent) = Len(rcvd) + InFlight

\* Two different messages, both delivered, in order.
C10_Witness ==
  /\ Len(rcvd) = MaxMsgs
  /\ rcvd = sent
  /\ sent[1] # sent[2]
  /\ chan["ch"] = <<>>

(***************************************************************************)
(* End of stream: raw and formatted messages, the reserved payload and     *)
(* send_eof on one channel, with teardown of the Output object.            *)
(***************************************************************************)
\* Raw payloads: the empty one, the reserved one and an ordinary one.
EofPayloads == {<<>>, YGG_MSG_EOF, <<1>>}
\* Values of the one field of ChanFmt, the reserved byte among them.
EofArgs == {<< <<>> >>, << <<255>> >>, << <<255, 255>> >>}
EofDests == {<<[cap |-> c, val |-> <<>>]>> : c \in {0, 2}}

InitEof == Init /\ life["in"] = "live"

NextEof ==
  \/ \E d \in EofPayloads, ok \in BOOLEAN : Send(d, ok)
  \/ \E a \in EofArgs, ok \in BOOLEAN : SendFmt(a, ok)
  \/ \E ok \in BOOLEAN : SendEof(ok)
  \/ \E c \in {0, YGG_MSG_MAX}, ok \in BOOLEAN : Recv(c, ok)
  \/ \E d \in EofDests, ok \in BOOLEAN : RecvFmt(d, ok)
  \/ DestroyPi("out")

SpecEof == InitEof /\ [][NextEof]_vars

RecvOps == {"recv", "recv_fmt", "recvRealloc", "recv_nolimit",
            "recv_nolimit_fmt"}

\* The step is a receive through an accepting transport on an Open handle,
\* and the unit at the head of the channel was put there by routine api.
ReceivesFrom(apis) ==
  /\ last'.op \in RecvOps /\ last'.pre /\ last'.ok
  /\ chan["ch"] # <<>> /\ Head(chan["ch"]).api \in apis

\* C11 (amended): receiving the unit put by send_eof yields a negative
\* result (EOF); receiving a zero-length raw message yields 0; no formatted
\* send puts a unit that a receive reports as EOF.  A raw send, however,
\* whose payload equals the reserved payload is reported as EOF.
C11_EofDistinct ==
  /\ [][ReceivesFrom({"send_eof"})
          => (last'.st.err = "EOF" /\ last'.st.ret < 0)]_vars
  /\ [][(ReceivesFrom({"send"}) /\ Head(chan["ch"]).bytes = <<>>)
          => last'.st = Ok(0)]_vars
  /\ [][ReceivesFrom({"send_fmt"}) => last'.st.err # "EOF"]_vars
  /\ [][ReceivesFrom({"send"})
          => (last'.st.err = "EOF" <=>
                Head(chan["ch"]).bytes = YGG_MSG_EOF)]_vars

\* A zero-length raw message was received as a message, and then the unit put
\* by send_eof was received as EOF.
C11_Witness ==
  /\ last.op = "recv" /\ last.st.err = "EOF" /\ last.popped = 1
  /\ \E i \in 1..Len(rcvd) : rcvd[i] = <<>>
  /\ \A i \in 1..Len(sent) : sent[i] # YGG_MSG_EOF

\* C11 as stated: whatever a receive reports as EOF was put by send_eof, not
\* by an ordinary raw or formatted send.
C11_Original ==
  [][(last'.op \in RecvOps /\ last'.st.err = "EOF")
       => Head(chan["ch"]).api = "send_eof"]_vars

SendOps == {"send", "send_fmt", "send_nolimit", "send_nolimit_fmt"}

CodecFmts == {<<5>>, <<2, 1, 2>>, <<5, 5>>}

\* Values for the fields of descriptor d: all of full width, all empty, one
\* byte each, only the first of full width, the first one byte too wide, and
\* one value too few.
FullVals(d) == [i \in 1..Len(d) |-> Pattern(d[i], i)]
CodecArgs(d) ==
  {FullVals(d),
   [i \in 1..Len(d) |-> <<>>],
   [i \in 1..Len(d) |-> Pattern(1, i)],
   [i \in 1..Len(d) |-> IF i = 1 THEN Pattern(d[1], 1) ELSE <<>>],
   [FullVals(d) EXCEPT ![1] = Pattern(d[1] + 1, 1)],
   Tail(FullVals(d))}

\* Destinations: all adequate (z = 0), or adequate but for the z-th, of
\* capacity 0; and all of capacity 0.  An adequate destination holds an old
\* value.
CodecDests(d) ==
  {[i \in 1..Len(d) |->
      IF i = z THEN [cap |-> 0, val |-> <<>>]
      ELSE [cap |-> d[i], val |-> <<77>>]] : z \in 0..Len(d)}
    \cup {[i \in 1..Len(d) |-> [cap |-> 0, val |-> <<>>]]}

\* Messages formatted by hand: the empty message, an encoding followed by
\* extra bytes, and an encoding cut short.  vals: the values encoded.
HandMade(d) ==
  {[bytes |-> <<>>, vals |-> <<>>]}
    \cup {[bytes |-> packFields(v) \o <<0>>, vals |-> v] :
            v \in {FullVals(d), [i \in 1..Len(d) |-> Pattern(1, i)]}}
    \cup {[bytes |-> SubSeq(packFields(FullVals(d)), 1,
                            Len(packFields(FullVals(d))) - 1),
           vals |-> <<>>]}

\* out.send(data, len) of a message formatted by hand, for a peer that uses
\* the formatted receive.
SendPacked(m, ok) ==
  /\ life["out"] = "live" /\ CanSend
  /\ LET r == YggOutput_send(World("send_fmt"), "out", m.bytes, ok)
     IN  Do("send_packed", "out", m.bytes, ok, r) /\ Sent(r, m.vals)
  /\ UNCHANGED <<loop, pend, life, teardowns, rcvd, call, ncalls>>

InitCodec ==
  /\ \E d \in CodecFmts :
        h = [o \in Objs |->
               CASE o = "in" -> YggInput_fmt(TRUE, d)
                 [] o = "out" -> YggOutput_fmt(TRUE, d)
                 [] o = "out2" -> YggOutput2_ctor
                 [] o = "cli" -> YggRpcClient_ctor
                 [] OTHER -> YggRpcServer_ctor]
  /\ life = [o \in Objs |-> IF o \in {"in", "out"} THEN "live" ELSE "unborn"]
  /\ teardowns = [o \in Objs |-> 0]
  /\ released = [r \in Resources |-> 0]
  /\ badAccess = FALSE
  /\ chan = [c \in Chans |-> <<>>]
  /\ sent = <<>>
  /\ rcvd = <<>>
  /\ call = IdleCall
  /\ ncalls = 0
  /\ pend = [o \in Senders |-> <<>>]
  /\ loop = IdleLoop
  /\ last = [op |-> "ctor", obj |-> None, pre |-> TRUE, ok |-> TRUE,
             arg |-> <<>>, st |-> Ok(0), tx |-> 0, rx |-> 0, pushed |-> 0,
             popped |-> 0, delta |-> 0, data |-> <<>>, cap |-> 0,
             dests |-> <<>>]

NextCodec ==
  \/ \E a \in CodecArgs(h["out"].fmt_out), ok \in BOOLEAN : SendFmt(a, ok)
  \/ \E m \in HandMade(h["out"].fmt_out), ok \in BOOLEAN : SendPacked(m, ok)
  \/ \E d \in CodecDests(h["in"].fmt_in), ok \in BOOLEAN : RecvFmt(d, ok)
  \/ \E d \in CodecDests(h["in"].fmt_in), ok \in BOOLEAN : RecvRealloc(d, ok)

SpecCodec == InitCodec /\ [][NextCodec]_vars

\* The values encoded in the message at the head of the channel: every
\* message taken from the channel was handed to the caller, so the head is
\* the first message sent and not yet received (<<>>: none, or not an
\* encoding of values).
HeadVals == IF Len(rcvd) < Len(sent) THEN sent[Len(rcvd) + 1] ELSE <<>>

InFmt == h["in"].fmt_in

\* The step is a formatted receive (one of ops) by the Input object, on an
\* Open handle through an accepting transport, with one destination per
\* field, of a message that encodes one value per field.
FmtRecvStep(ops) ==
  /\ last'.op \in ops /\ last'.obj = "in" /\ last'.pre /\ last'.ok
  /\ chan["ch"] # <<>> /\ Head(chan["ch"]).api = "send_fmt"
  /\ Len(last'.arg) = Len(InFmt)
  /\ Len(HeadVals) = Len(InFmt)

\* The first field whose value does not fit its destination (0: all fit).
FirstSmall(vals, dests) ==
  LET small == {i \in 1..Len(vals) : Len(vals[i]) > dests[i].cap}
  IN  IF small = {} THEN 0
      ELSE CHOOSE i \in small : \A j \in small : i <= j

\* C13: in fixed mode (recv) a first field longer than its destination (a
\* 5-byte field into capacity 0) fails with BufferTooSmall, fills 0 fields
\* and leaves the destinations as they were; in growable mode (recvRealloc)
\* the receive succeeds and every destination holds its value in a capacity
\* of at least the value's length.
C13_GrowableDestination ==
  /\ [][(FmtRecvStep({"recv_fmt"}) /\ FirstSmall(HeadVals, last'.arg) = 1)
          => /\ last'.st.err = "BufferTooSmall"
             /\ last'.dests = last'.arg
             /\ unpack(InFmt, Head(chan["ch"]).bytes, last'.arg,
                       FALSE).filled = 0]_vars
  /\ [][FmtRecvStep({"recvRealloc"})
          => /\ last'.st.ret >= 0
             /\ \A i \in 1..Len(InFmt) :
                   /\ last'.dests[i].val = HeadVals[i]
                   /\ last'.dests[i].cap >= Len(HeadVals[i])]_vars

\* recvRealloc took a 5-byte field into a destination of capacity 0.
C13_Witness ==
  /\ last.op = "recvRealloc" /\ last.st.ret >= 0
  /\ last.arg[1].cap = 0
  /\ Len(last.dests[1].val) = 5 /\ last.dests[1].cap >= 5

RECURSIVE PackedLen(_)
PackedLen(vals) ==
  IF vals = <<>> THEN 0 ELSE 1 + Len(Head(vals)) + PackedLen(Tail(vals))

Representable(d, vals) ==
  Len(vals) = Len(d) /\ \A i \in 1..Len(d) : Len(vals[i]) <= d[i]

\* C15: values representable under the descriptor are packed and sent (when
\* the encoding fits one transport unit), and unpacking those bytes under
\* the same descriptor into adequate destinations fills all fields (returns
\* the field count) and yields the values sent.
C15_SendPrecondition ==
  /\ last.op = "send_fmt" /\ last.pre /\ last.ok
  /\ Representable(h["out"].fmt_out, last.arg)
  /\ PackedLen(last.arg) <= YGG_MSG_MAX

C15_SendPacks ==
  /\ last.st.ret >= 0
  /\ chan["ch"] # <<>>
  /\ Len(chan["ch"][Len(chan["ch"])].bytes) = PackedLen(last.arg)
  /\ unpack(h["out"].fmt_out, chan["ch"][Len(chan["ch"])].bytes,
            [i \in 1..Len(last.arg) |->
               [cap |-> Len(last.arg[i]), val |-> <<>>]],
            FALSE).st = Ok(Len(last.arg))

\* The codec alone, over the descriptors and values of this specification.
C15_Codec ==
  \A d \in CodecFmts : \A v \in CodecArgs(d) :
     Representable(d, v) =>
       LET u == unpack(d, pack(d, v).bytes,
                       [i \in 1..Len(d) |-> [cap |-> d[i], val |-> <<>>]],
                       FALSE)
       IN  /\ pack(d, v).st.ret >= 0
           /\ u.st = Ok(Len(d)) /\ u.filled = Len(d)
           /\ DestVals(u.dests) = v

C15_PackUnpackRoundTrip ==
  /\ [](C15_SendPrecondition => C15_SendPacks)
  /\ []C15_Codec
  /\ [][(/\ FmtRecvStep({"recv_fmt", "recvRealloc"})
         /\ Len(Head(chan["ch"]).bytes) = PackedLen(HeadVals)
         /\ FirstSmall(HeadVals, last'.arg) = 0)
        => (/\ last'.st = Ok(Len(InFmt))
            /\ DestVals(last'.dests) = HeadVals
            /\ rcvd' = Append(rcvd, HeadVals))]_vars

\* A three-field message of full-width values was packed, sent, received and
\* unpacked.
C15_Witness ==
  /\ last.op = "recv_fmt" /\ last.st = Ok(3)
  /\ Len(last.data) = PackedLen(DestVals(last.dests))
  /\ \A i \in 1..3 : Len(last.dests[i].val) = InFmt[i]
  /\ rcvd # <<>> /\ rcvd[Len(rcvd)] = sent[Len(rcvd)]

\* C19: unpacking an empty message against a descriptor with at least one
\* field fails with TruncatedMessage; unpacking a message that has extra
\* bytes after the last field's encoding succeeds with the full field count
\* and the values of the message without the extra bytes.
C19_EmptyAndTrailing ==
  /\ [][(/\ last'.op \in {"recv_fmt", "recvRealloc"} /\ last'.pre /\ last'.ok
         /\ chan["ch"] # <<>> /\ Head(chan["ch"]).api = "send_fmt"
         /\ Len(last'.arg) = Len(InFmt) /\ Len(InFmt) >= 1
         /\ Head(chan["ch"]).bytes = <<>>)
        => (last'.st.err = "TruncatedMessage" /\ chan' = chan)]_vars
  /\ [][(/\ FmtRecvStep({"recv_fmt", "recvRealloc"})
         /\ Len(Head(chan["ch"]).bytes) > PackedLen(HeadVals)
         /\ FirstSmall(HeadVals, last'.arg) = 0)
        => (/\ last'.st = Ok(Len(InFmt))
            /\ DestVals(last'.dests) = HeadVals
            /\ last'.dests =
                 unpack(InFmt,
                        SubSeq(Head(chan["ch"]).bytes, 1, PackedLen(HeadVals)),
                        last'.arg, FALSE).dests)]_vars

\* A message with a trailing byte was received with the full field count.
C19_Witness ==
  /\ last.op = "recv_fmt" /\ last.st = Ok(Len(InFmt))
  /\ Len(last.data) = PackedLen(DestVals(last.dests)) + 1

(***************************************************************************)
(* Failures: every bounded operation of the Input and the Output object    *)
(* and the RPC client's calls, with inputs that make each error kind       *)
(* happen, a transport that may refuse, and teardown.                      *)
(***************************************************************************)
ErrPayloads == {<<1>>, Pattern(YGG_MSG_MAX + 1, 0)}
\* A value that fits ChanFmt, one too wide for it, and no value at all.
ErrArgs == {<< <<1>> >>, << <<1, 2, 3>> >>, <<>>}
ErrDests == {<<[cap |-> c, val |-> <<>>]>> : c \in {0, 2}}
EmptyMessage == [bytes |-> <<>>, vals |-> <<>>]

NextErr ==
  \/ \E o \in Objs : DestroyPi(o)
  \/ \E d \in ErrPayloads, ok \in BOOLEAN : Send(d, ok)
  \/ \E a \in ErrArgs, ok \in BOOLEAN : SendFmt(a, ok)
  \/ \E ok \in BOOLEAN : SendPacked(EmptyMessage, ok)
  \/ \E c \in {0, YGG_MSG_MAX}, ok \in BOOLEAN : Recv(c, ok)
  \/ \E d \in ErrDests, ok \in BOOLEAN : RecvFmt(d, ok)
  \/ \E d \in ErrDests, ok \in BOOLEAN : RecvRealloc(d, ok)
  \/ \E realloc \in BOOLEAN, nargs \in CallCounts, ok \in BOOLEAN :
        \E args \in CallArgs(nargs) : CallStart(realloc, nargs, args, ok)
  \/ \E ok \in BOOLEAN : CallRecv(ok)
  \/ \E d \in ServerDests, ok \in BOOLEAN : RpcRecv("srv", d, ok)
  \/ \E a \in Replies, ok \in BOOLEAN : RpcSend("srv", a, ok)

SpecErr == Init /\ [][NextErr]_vars

FailureKinds ==
  {"EncodingError", "TruncatedMessage", "BufferTooSmall", "MessageTooLarge",
   "ChannelClosed", "ArgumentCountMismatch", "TransportFailure"}

\* A step that returns one of the failure kinds leaves every handle, every
\* channel and every transport resource as it was.
FailedStepLeavesState ==
  [][last'.st.err \in FailureKinds
       => /\ h' = h /\ chan' = chan /\ released' = released
          /\ sent' = sent /\ rcvd' = rcvd
          /\ last'.pushed = 0 /\ last'.popped = 0]_vars

ConcPayloads(o) ==
  {Pattern(n, IF o = "out" THEN 0 ELSE 1) :
     n \in {YGG_MSG_MAX + 1, 2 * YGG_MSG_MAX + 1}}

InitConc ==
  /\ h = [o \in Objs |->
            CASE o = "in" -> YggInput_ctor
              [] o = "out" -> YggOutput_ctor
              [] o = "out2" -> YggOutput2_ctor
              [] o = "cli" -> YggRpcClient_ctor
              [] OTHER -> YggRpcServer_ctor]
  /\ life = [o \in Objs |->
               IF o \in Senders \cup {"in"} THEN "live" ELSE "unborn"]
  /\ teardowns = [o \in Objs |-> 0]
  /\ released = [r \in Resources |-> 0]
  /\ badAccess = FALSE
  /\ chan = [c \in Chans |-> <<>>]
  /\ sent = <<>>
  /\ rcvd = <<>>
  /\ call = IdleCall
  /\ ncalls = 0
  /\ pend = [o \in Senders |-> <<>>]
  /\ loop = IdleLoop
  /\ last = [op |-> "ctor", obj |-> None, pre |-> TRUE, ok |-> TRUE,
             arg |-> <<>>, st |-> Ok(0), tx |-> 0, rx |-> 0, pushed |-> 0,
             popped |-> 0, delta |-> 0, data |-> <<>>, cap |-> 0,
             dests |-> <<>>]

\* o.send_nolimit(data, len) is entered: the chunks to put are those the
\* call puts on the channel.
SendNolimitBegin(o, data) ==
  /\ life[o] = "live" /\ h[o].open
  /\ pend[o] = <<>> /\ Len(sent) < MaxMsgs
  /\ LET r == YggOutput_send_nolimit(World("send_nolimit"), o, data, TRUE)
     IN  pend' = [pend EXCEPT ![o] =
                    SubSeq(r.w.chan["ch"], Len(chan["ch"]) + 1,
                           Len(r.w.chan["ch"]))]
  /\ sent' = Append(sent, data)
  /\ UNCHANGED <<loop, h, life, teardowns, released, badAccess, chan, rcvd,
                 call, ncalls, last>>

\* The next transport operation of o's send_nolimit; the call returns after
\* its last chunk.
PutChunk(o) ==
  /\ pend[o] # <<>>
  /\ chan' = [chan EXCEPT !["ch"] = Append(@, Head(pend[o]))]
  /\ pend' = [pend EXCEPT ![o] = Tail(@)]
  /\ last' = IF Len(pend[o]) > 1 THEN last
             ELSE [op |-> "send_nolimit", obj |-> o, pre |-> TRUE,
                   ok |-> TRUE, arg |-> <<>>, st |-> Ok(0), tx |-> 1,
                   rx |-> 0, pushed |-> 1, popped |-> 0, delta |-> 1,
                   data |-> <<>>, cap |-> 0, dests |-> <<>>]
  /\ UNCHANGED <<loop, h, life, teardowns, released, badAccess, sent, rcvd,
                 call, ncalls>>

\* in.recv_nolimit(data, len), returning once the chunks up to a last one
\* have arrived.
RecvNolimitWhole(cap) ==
  /\ Reassemble(chan["ch"], 0, <<>>).state = "complete"
  /\ RecvNolimit(cap, TRUE)

NextConc ==
  \/ \E o \in Senders : \E d \in ConcPayloads(o) : SendNolimitBegin(o, d)
  \/ \E o \in Senders : PutChunk(o)
  \/ RecvNolimitWhole(0)

SpecConc == InitConc /\ [][NextConc]_vars

\* C17: whatever the interleaving of the two senders' operations, every
\* message delivered to the receiver equals a message that one of the
\* senders sent.
C17_NoMixedMessage ==
  \A i \in 1..Len(rcvd) : \E j \in 1..Len(sent) : rcvd[i] = sent[j]

(***************************************************************************)
(* Construction: an Input and an Output object constructed from a name     *)
(* that resolves or not and a descriptor that is well formed or not, then  *)
(* used and torn down.                                                     *)
(***************************************************************************)
\* A well-formed descriptor and one with a field of width 0.
CtorFmts == {ChanFmt, <<0>>}

InitCtor ==
  /\ \E nameIn \in BOOLEAN, nameOut \in BOOLEAN :
       \E fmtIn \in CtorFmts, fmtOut \in CtorFmts :
          h = [o \in Objs |->
                 CASE o = "in" -> YggInput_fmt(nameIn, fmtIn)
                   [] o = "out" -> YggOutput_fmt(nameOut, fmtOut)
                   [] o = "out2" -> YggOutput2_ctor
                   [] o = "cli" -> YggRpcClient_ctor
                   [] OTHER -> YggRpcServer_ctor]
  /\ life = [o \in Objs |-> IF o \in {"in", "out"} THEN "live" ELSE "unborn"]
  /\ teardowns = [o \in Objs |-> 0]
  /\ released = [r \in Resources |-> 0]
  /\ badAccess = FALSE
  /\ chan = [c \in Chans |-> <<>>]
  /\ sent = <<>>
  /\ rcvd = <<>>
  /\ call = IdleCall
  /\ ncalls = 0
  /\ pend = [o \in Senders |-> <<>>]
  /\ loop = IdleLoop
  /\ last = [op |-> "ctor", obj |-> None, pre |-> TRUE, ok |-> TRUE,
             arg |-> <<>>, st |-> Ok(0), tx |-> 0, rx |-> 0, pushed |-> 0,
             popped |-> 0, delta |-> 0, data |-> <<>>, cap |-> 0,
             dests |-> <<>>]

NextCtor ==
  \/ \E o \in {"in", "out"} : DestroyPi(o)
  \/ \E d \in SmallData, ok \in BOOLEAN : Send(d, ok)
  \/ \E a \in SmallArgs, ok \in BOOLEAN : SendFmt(a, ok)
  \/ \E d \in SmallData, ok \in BOOLEAN : SendNolimit(d, ok)
  \/ \E ok \in BOOLEAN : SendEof(ok)
  \/ \E ok \in BOOLEAN : Recv(YGG_MSG_MAX, ok)
  \/ \E d \in SmallDests, ok \in BOOLEAN : RecvFmt(d, ok)
  \/ \E d \in SmallDests, ok \in BOOLEAN : RecvRealloc(d, ok)
  \/ \E ok \in BOOLEAN : RecvNolimit(YGG_MSG_MAX, ok)

SpecCtor == InitCtor /\ [][NextCtor]_vars

\* The descriptor object o was constructed with.
CtorFmt(o) == IF o = "in" THEN h[o].fmt_in ELSE h[o].fmt_out

\* C18: a constructed handle is Open exactly when its name resolved and its
\* descriptor is well formed (a malformed descriptor is rejected by the
\* constructor); a handle that is not Open never becomes Open and every
\* send or receive on it fails; a raw send within the limit on an Open
\* handle through an accepting transport succeeds.
C18_ConstructionOutcomes ==
  /\ [](\A o \in {"in", "out"} :
          teardowns[o] = 0 =>
            (h[o].open <=> (h[o].resolved /\ WellFormedFmt(CtorFmt(o)))))
  /\ [][\A o \in {"in", "out"} : ~h[o].open => ~h'[o].open]_vars
  /\ []((last.op \in SendOps \cup RecvOps \cup {"send_eof"} /\ ~last.pre)
          => last.st.ret < 0)
  /\ []((last.op = "send" /\ last.pre /\ last.ok) => last.st.ret >= 0)

\* The name resolved, the descriptor was malformed, and a formatted send on
\* the handle, never torn down, failed.
C18_Witness ==
  /\ last.op = "send_fmt" /\ last.obj = "out" /\ last.st.ret < 0 /\ last.ok
  /\ teardowns["out"] = 0
  /\ h["out"].resolved /\ ~WellFormedFmt(h["out"].fmt_out)

\* The values encoded in the response at the head of the response channel.
RespVals ==
  DestVals(unpack(call.cpi.fmt_in, Head(chan["resp"]).bytes, call.dests,
                  TRUE).dests)

\* call and callRealloc up to the blocking point, on the same input: the
\* same status, the same bytes on the request channel, the same decision to
\* receive; they differ in the destination policy alone.
C20_SameRequest ==
  (life["cli"] = "live" /\ call.pc = "idle") =>
    \A nargs \in CallCounts, ok \in BOOLEAN : \A args \in CallArgs(nargs) :
       LET a == YggRpcClient_call(World("send_fmt"), "cli", nargs, args, ok)
           b == YggRpcClient_callRealloc(World("send_fmt"), "cli", nargs,
                                         args, ok)
       IN  a.res = b.res /\ a.wait = b.wait /\ ~a.realloc /\ b.realloc

\* The receive of the response under the two policies: equal in everything
\* when the response fits the destinations; otherwise the fixed policy
\* fails with BufferTooSmall and the growable one grows and succeeds.
C20_SameResponse ==
  (call.pc = "recv" /\ call.cpi.open /\ chan["resp"] # <<>>
     /\ Len(RespVals) = Len(call.dests)) =>
    \A ok \in BOOLEAN :
       LET f == rpcCallEnd(World("none"), call.cpi, FALSE, call.dests, ok)
           g == rpcCallEnd(World("none"), call.cpi, TRUE, call.dests, ok)
       IN  IF ~ok \/ FirstSmall(RespVals, call.dests) = 0
           THEN f = g
           ELSE /\ f.st = Fail("BufferTooSmall")
                /\ g.st = Ok(Len(call.cpi.fmt_in))
                /\ DestVals(g.dests) = RespVals
                /\ \A i \in 1..Len(g.dests) :
                      g.dests[i].cap >= Len(RespVals[i])

\* C20: callRealloc behaves as call for every request and for every
\* response that fits the caller's destinations (same bytes sent, same
\* status, same decoded values, receive only after the send succeeded);
\* when a response field exceeds its destination call fails with
\* BufferTooSmall and callRealloc grows the destination and succeeds.
C20_CallReallocRefinesCall ==
  /\ C20_SameRequest
  /\ C20_SameResponse
  /\ call.pc = "recv" => (call.realloc <=> call.mode = "callRealloc")
  /\ (CallDone /\ call.mode = "callRealloc")
       => call.st.err # "BufferTooSmall"
  /\ (CallDone /\ call.recvSt.err = "BufferTooSmall")
       => (call.mode = "call" /\ call.sendSt.ret >= 0 /\ call.popped = 0)

\* callRealloc received a 2-byte response field into a destination of
\* capacity 0, which it grew.
C20_Witness ==
  /\ CallDone /\ call.mode = "callRealloc" /\ call.st.ret >= 0
  /\ last.op = "call_recv" /\ last.arg[1].cap = 0
  /\ Len(call.dests[1].val) = 2 /\ call.dests[1].cap >= 2

(***************************************************************************)
(* SpecLoop: one RPC client issuing calls one after another against one    *)
(* server that runs a receive, compute, send loop; the k-th call asks with *)
(* the value k, destinations of either capacity, a transport that may      *)
(* fail.                                                                   *)
(***************************************************************************)
\* The server's computation: the reply to a request repeats its byte.
Compute(req) == <<req[1] \o req[1]>>

\* The arguments of the next call: the request's value and a destination.
LoopArgs ==
  {<<[cap |-> 0, val |-> <<ncalls + 1>>], [cap |-> c, val |-> <<>>]>> :
     c \in {0, 2}}

\* cli.call(2, ...) or cli.callRealloc(2, ...) up to its blocking point.
LoopCallStart(realloc, args, ok) ==
  /\ CallStartOp(realloc, 2, args, ok)
  /\ loop' = [loop EXCEPT !.reqs = IF call'.pushed > 0
                                   THEN Append(@, CallVals(h["cli"], args))
                                   ELSE @]

\* The blocked call returns.
LoopCallRecv(ok) ==
  /\ CallRecvOp(ok)
  /\ loop' = [loop EXCEPT !.rets = IF call'.st.ret >= 0
                                   THEN Append(@, DestVals(call'.dests))
                                   ELSE @]

\* The server's loop: srv.recv(1, ...) of a request ...
ServerRecv(ok) ==
  /\ loop.held = <<>>
  /\ RpcRecvOp("srv", <<[cap |-> 1, val |-> <<>>]>>, ok)
  /\ loop' = [loop EXCEPT !.held = IF last'.st.ret >= 0
                                   THEN DestVals(last'.dests) ELSE @]

\* ... and srv.send(1, ...) of the reply computed from it, tried until the
\* transport accepts it.
ServerSend(ok) ==
  /\ loop.held # <<>>
  /\ RpcSendOp("srv", Compute(loop.held), ok)
  /\ loop' = [loop EXCEPT !.held = IF last'.st.ret >= 0 THEN <<>> ELSE @]

NextLoop ==
  \/ \E realloc \in BOOLEAN, ok \in BOOLEAN :
        \E args \in LoopArgs : LoopCallStart(realloc, args, ok)
  \/ \E ok \in BOOLEAN : LoopCallRecv(ok)
  \/ \E ok \in BOOLEAN : ServerRecv(ok)
  \/ \E ok \in BOOLEAN : ServerSend(ok)

SpecLoop == InitRpc /\ [][NextLoop]_vars

InitCopy == Init /\ life["in"] = "live"

\* YggOutput out2(out.pi())
CopyConstruct ==
  /\ life["out"] = "live" /\ life["out2"] = "unborn"
  /\ h' = [h EXCEPT !["out2"] =
             YggOutput_byvalue(YggOutput_pi(World("none"), "out"))]
  /\ life' = [life EXCEPT !["out2"] = "live"]
  /\ last' = [op |-> "ctor", obj |-> "out2", pre |-> h["out"].open,
              ok |-> TRUE, arg |-> <<>>, st |-> Ok(0), tx |-> 0, rx |-> 0,
              pushed |-> 0, popped |-> 0, delta |-> 0, data |-> <<>>,
              cap |-> 0, dests |-> <<>>]
  /\ UNCHANGED <<loop, pend, teardowns, released, badAccess, chan, sent, rcvd,
                 call, ncalls>>

NextCopy ==
  \/ CopyConstruct
  \/ \E o \in Senders : DestroyPi(o)
  \/ \E o \in Senders : Destruct(o)
  \/ \E d \in SmallData, ok \in BOOLEAN : Send(d, ok)
  \/ \E ok \in BOOLEAN : Recv(YGG_MSG_MAX, ok)

SpecCopy == InitCopy /\ [][NextCopy]_vars

\* C22: in every sequence of operations that copies the handle by value,
\* the transport resource is released at most once and no object is used
\* on a released resource.
C22_CopyReleasedOnce ==
  /\ \A r \in Resources : released[r] <= 1
  /\ ~badAccess

(***************************************************************************)
(* SpecFmt: the two formatted sends of the Output object, under each       *)
(* descriptor, with values that fit one unit and values that do not, on an *)
(* Open and on a Closed handle.                                            *)
(***************************************************************************)
NextFmt ==
  \/ \E a \in CodecArgs(h["out"].fmt_out), ok \in BOOLEAN : SendFmt(a, ok)
  \/ \E a \in CodecArgs(h["out"].fmt_out), ok \in BOOLEAN :
        SendNolimitFmt(a, ok)
  \/ \E d \in CodecDests(h["in"].fmt_in), ok \in BOOLEAN : RecvFmt(d, ok)
  \/ \E d \in CodecDests(h["in"].fmt_in), ok \in BOOLEAN :
        RecvNolimitFmt(d, ok)
  \/ DestroyPi("out")

SpecFmt == InitCodec /\ [][NextFmt]_vars

strlen(s) ==
  CHOOSE n \in 0..(Len(s) - 1) :
    s[n + 1] = 0 /\ \A i \in 1..n : s[i] # 0

\* send_line handing the line to the unbounded send.
YggAsciiFileOutput_send_line_nolimit(w, o, line, ok) ==
  YggOutput_send_nolimit(w, o, SubSeq(line, 1, strlen(line)), ok)

\* send(line, strlen(line))
YggAsciiFileOutput_send_line(w, o, line, ok) ==
  YggOutput_send(w, o, SubSeq(line, 1, strlen(line)), ok)

\* recv(line, n)
YggAsciiFileInput_recv_line(w, o, n, ok) == YggInput_recv(w, o, n, ok)

\* out.send_line(line)
SendLine(line, ok) ==
  /\ life["out"] = "live" /\ CanSend
  /\ LET r == YggAsciiFileOutput_send_line(World("send"), "out", line, ok)
     IN  Do("send_line", "out", line, ok, r)
         /\ Sent(r, SubSeq(line, 1, strlen(line)))
  /\ UNCHANGED <<loop, pend, life, teardowns, rcvd, call, ncalls>>

\* in.recv_line(line, n)
RecvLine(n, ok) ==
  /\ life["in"] = "live" /\ CanRecv("in", "ch", {"send"}, ok)
  /\ LET r == YggAsciiFileInput_recv_line(World("none"), "in", n, ok)
     IN  Do("recv_line", "in", n, ok, r) /\ Rcvd(r, r.data)
  /\ UNCHANGED <<loop, pend, life, teardowns, sent, call, ncalls>>

\* The empty line, short lines (one with characters after its terminator),
\* a line of exactly the inline limit and a line one character over it.
Lines ==
  {<<0>>, <<1, 0>>, <<1, 2, 0, 3, 0>>,
   [i \in 1..(YGG_MSG_MAX + 1) |-> IF i <= YGG_MSG_MAX THEN 1 ELSE 0],
   [i \in 1..(YGG_MSG_MAX + 2) |-> IF i <= YGG_MSG_MAX + 1 THEN 1 ELSE 0]}

LineCaps == {0, 1, YGG_MSG_MAX}

NextLine ==
  \/ \E l \in Lines, ok \in BOOLEAN : SendLine(l, ok)
  \/ \E ok \in BOOLEAN : SendEof(ok)
  \/ \E n \in LineCaps, ok \in BOOLEAN : RecvLine(n, ok)
  \/ \E o \in {"in", "out"} : DestroyPi(o)

SpecLine == InitEof /\ [][NextLine]_vars

\* send_line is the bounded raw send of the strlen(line) characters.
C24_SendLine ==
  /\ \A l \in Lines, ok \in BOOLEAN :
        YggAsciiFileOutput_send_line(World("send"), "out", l, ok)
          = ygg_send(World("send"), h["out"],
                     SubSeq(l, 1, strlen(l)), ok)
  /\ (last.op = "send_line" /\ last.st.ret >= 0)
       => /\ last.pushed = 1 /\ last.delta = 1 /\ chan["ch"] # <<>>
          /\ chan["ch"][Len(chan["ch"])].bytes
               = SubSeq(last.arg, 1, strlen(last.arg))
          /\ Len(chan["ch"][Len(chan["ch"])].bytes) = strlen(last.arg)
  /\ (last.op = "send_line" /\ last.pre /\ last.ok
        /\ strlen(last.arg) <= YGG_MSG_MAX) => last.st.ret >= 0
  /\ (last.op = "send_line" /\ strlen(last.arg) > YGG_MSG_MAX)
       => /\ last.st.ret < 0 /\ last.pushed = 0 /\ last.delta = 0
          /\ last.tx = 0
          /\ last.pre => last.st.err = "MessageTooLarge"

\* recv_line is the bounded raw receive into n characters: the step has the
\* outcome of the C receive, a non-negative result is the length of the unit
\* taken, which fits n, and the unit put by send_eof and every error yield a
\* negative result.
C24_RecvLineStep ==
  last'.op = "recv_line" =>
    /\ LET r == ygg_recv(World("none"), h["in"], last'.arg, last'.ok)
       IN  last'.st = r.st /\ last'.data = r.data /\ chan' = r.w.chan
    /\ last'.st.ret >= 0 =>
         /\ chan["ch"] # <<>> /\ chan' = [chan EXCEPT !["ch"] = Tail(@)]
         /\ last'.data = Head(chan["ch"]).bytes
         /\ last'.st.ret = Len(last'.data) /\ last'.st.ret <= last'.arg
    /\ (last'.pre /\ last'.ok /\ chan["ch"] # <<>>
          /\ Head(chan["ch"]).api = "send_eof")
         => (last'.st.ret < 0 /\ last'.st.err = "EOF")
    /\ last'.st.err # "OK" => last'.st.ret < 0
    /\ (~last'.pre \/ ~last'.ok) => last'.st.ret < 0

\* C24: send_line(line) is the bounded raw send of exactly strlen(line)
\* bytes, and a line longer than the inline limit is rejected with an error
\* and nothing is sent; recv_line(line, n) is the bounded raw receive into a
\* buffer of capacity n and returns the number of bytes received, or a
\* negative value both on error and when the EOF message is received.
C24_LineTransfer == []C24_SendLine /\ [][C24_RecvLineStep]_vars

\* A line one character over the inline limit was rejected, after a line of
\* exactly the limit had been sent and received whole by recv_line.
C24_Witness ==
  /\ last.op = "send_line" /\ last.pre
  /\ strlen(last.arg) = YGG_MSG_MAX + 1
  /\ last.st.err = "MessageTooLarge"
  /\ \E i \in 1..Len(rcvd) : Len(rcvd[i]) = YGG_MSG_MAX

====
